---- MODULE Spec2Model ----
(***************************************************************************)
(* Model of src/src/processor.py: validate_data, calculate_metrics,        *)
(* process_sensor_data and main.                                           *)
(*                                                                         *)
(* Floats are modelled as exact rationals plus nan, inf and -inf, with the *)
(* IEEE-754 comparison rules (every ordered comparison with nan is false). *)
(* Rounding of finite results is not modelled.                             *)
(***************************************************************************)
EXTENDS Integers, Sequences, FiniteSets, TLC

VARIABLES
    pc,             \* control point of the running function
    record,         \* validate_data: the argument
    verdict,        \* validate_data: what the call produced
    data,           \* calculate_metrics: the argument
    report,         \* calculate_metrics: what the call produced
    csv_files,      \* main: list(incoming_dir.glob("*.csv"))
    file_idx,       \* main: position of the for loop in csv_files
    results,        \* main: results
    input_file,     \* process_sensor_data: the argument
    input_exists,   \* file system: input_path.exists()
    rows_read,      \* the rows csv.DictReader has yielded so far, in order
    valid_records,  \* process_sensor_data: valid_records
    invalid_count,  \* process_sensor_data: invalid_count
    metrics,        \* process_sensor_data: metrics
    result,         \* process_sensor_data: result
    outputs,        \* file system: content of each artifact of the output directory
    outputs_before, \* outputs as they were when process_sensor_data was entered
    io_log,         \* file operations issued by the running process_sensor_data call
    aggregator_calls \* number of calls of calculate_metrics in the running call

vars == <<pc, record, verdict, data, report, csv_files, file_idx, results,
          input_file, input_exists, rows_read, valid_records, invalid_count,
          metrics, result, outputs, outputs_before, io_log, aggregator_calls>>

batch_vars == <<csv_files, file_idx, results, input_file, input_exists, rows_read,
                valid_records, invalid_count, metrics, result, outputs,
                outputs_before, io_log, aggregator_calls>>

-----------------------------------------------------------------------------
(* Python floats *)

RECURSIVE Gcd(_, _)
Gcd(a, b) == IF b = 0 THEN a ELSE Gcd(b, a % b)

Abs(n) == IF n < 0 THEN -n ELSE n

\* the float num/den, in lowest terms
Fin(num, den) ==
    LET g == Gcd(Abs(num), Abs(den))
        s == IF den < 0 THEN -1 ELSE 1
    IN  [k |-> "fin", num |-> s * (num \div g), den |-> s * (den \div g)]

F(n) == [k |-> "fin", num |-> n, den |-> 1]
NaN == [k |-> "nan", num |-> 0, den |-> 1]
PosInf == [k |-> "inf", num |-> 1, den |-> 1]

IsNaN(a) == a.k = "nan"
IsFinite(a) == a.k = "fin"

\* a < b on floats: false when either side is nan
FLt(a, b) ==
    CASE IsNaN(a) \/ IsNaN(b) -> FALSE
      [] a.k = "inf" /\ b.k = "inf" -> a.num < b.num
      [] a.k = "inf" -> a.num < 0
      [] b.k = "inf" -> b.num > 0
      [] OTHER -> a.num * b.den < b.num * a.den

FGt(a, b) == FLt(b, a)

\* a == b on floats: nan equals nothing, itself included
FEq(a, b) == ~IsNaN(a) /\ ~IsNaN(b) /\ a = b

FAdd(a, b) ==
    CASE IsNaN(a) \/ IsNaN(b) -> NaN
      [] a.k = "inf" /\ b.k = "inf" -> IF a.num = b.num THEN a ELSE NaN
      [] a.k = "inf" -> a
      [] b.k = "inf" -> b
      [] OTHER -> Fin(a.num * b.den + b.num * a.den, a.den * b.den)

Sign(n) == IF n < 0 THEN -1 ELSE IF n > 0 THEN 1 ELSE 0

FMul(a, b) ==
    CASE IsNaN(a) \/ IsNaN(b) -> NaN
      [] a.k = "inf" \/ b.k = "inf" ->
            IF Sign(a.num) * Sign(b.num) = 0 THEN NaN
            ELSE [k |-> "inf", num |-> Sign(a.num) * Sign(b.num), den |-> 1]
      [] OTHER -> Fin(a.num * b.num, a.den * b.den)

\* a / n for a non-zero finite n
FDiv(a, b) ==
    CASE IsNaN(a) -> NaN
      [] a.k = "inf" -> [k |-> "inf", num |-> a.num * Sign(b.num), den |-> 1]
      [] OTHER -> Fin(a.num * b.den, a.den * b.num)

-----------------------------------------------------------------------------
(* Values a record can hold under a key: text of a CSV cell, None (a cell   *)
(* DictReader filled in for a short row), or a float already converted.     *)

Str(s) == [t |-> "str", s |-> s, v |-> F(0)]
None == [t |-> "none", s |-> <<>>, v |-> F(0)]
Flt(v) == [t |-> "float", s |-> <<>>, v |-> v]

Digits == {"0", "1", "2", "3", "4", "5", "6", "7", "8", "9"}
DigitVal == ("0" :> 0) @@ ("1" :> 1) @@ ("2" :> 2) @@ ("3" :> 3) @@ ("4" :> 4) @@
            ("5" :> 5) @@ ("6" :> 6) @@ ("7" :> 7) @@ ("8" :> 8) @@ ("9" :> 9)

RECURSIVE LStrip(_)
LStrip(s) == IF s # <<>> /\ Head(s) = " " THEN LStrip(Tail(s)) ELSE s

RECURSIVE RStrip(_)
RStrip(s) ==
    IF s # <<>> /\ s[Len(s)] = " " THEN RStrip(SubSeq(s, 1, Len(s) - 1)) ELSE s

RECURSIVE DigitsValue(_)
DigitsValue(s) ==
    IF s = <<>> THEN 0
    ELSE 10 * DigitsValue(SubSeq(s, 1, Len(s) - 1)) + DigitVal[s[Len(s)]]

RECURSIVE Pow10(_)
Pow10(n) == IF n = 0 THEN 1 ELSE 10 * Pow10(n - 1)

AllDigits(s) == \A i \in 1..Len(s) : s[i] \in Digits

\* index of the first "." of s, or 0
DotAt(s) ==
    IF \E i \in 1..Len(s) : s[i] = "."
    THEN CHOOSE i \in 1..Len(s) : s[i] = "." /\ \A j \in 1..(i - 1) : s[j] # "."
    ELSE 0

Raised(e) == [ok |-> FALSE, val |-> F(0), exc |-> e]
Value(v) == [ok |-> TRUE, val |-> v, exc |-> "none"]

\* float(text): surrounding blanks stripped, an optional sign, then nan, inf,
\* infinity, or decimal digits with an optional fraction; anything else raises
\* ValueError.  (Exponents and digit separators are not in the sample inputs.)
ParseFloat(text) ==
    LET s == RStrip(LStrip(text))
        signed == s # <<>> /\ Head(s) \in {"+", "-"}
        sg == IF signed /\ Head(s) = "-" THEN -1 ELSE 1
        body == IF signed THEN Tail(s) ELSE s
        dot == DotAt(body)
        ip == IF dot = 0 THEN body ELSE SubSeq(body, 1, dot - 1)
        fp == IF dot = 0 THEN <<>> ELSE SubSeq(body, dot + 1, Len(body))
    IN  CASE body = <<"n", "a", "n">> -> Value(NaN)
          [] body \in {<<"i", "n", "f">>, <<"i", "n", "f", "i", "n", "i", "t", "y">>} ->
                Value([k |-> "inf", num |-> sg, den |-> 1])
          [] AllDigits(ip) /\ AllDigits(fp) /\ Len(ip) + Len(fp) > 0 ->
                Value(Fin(sg * (DigitsValue(ip) * Pow10(Len(fp)) + DigitsValue(fp)),
                          Pow10(Len(fp))))
          [] OTHER -> Raised("ValueError")

\* float(x)
float(x) ==
    CASE x.t = "float" -> Value(x.v)
      [] x.t = "none" -> Raised("TypeError")
      [] OTHER -> ParseFloat(x.s)

\* float(record[key]): KeyError when the key is absent
FloatOf(rec, key) ==
    IF key \notin DOMAIN rec THEN Raised("KeyError") ELSE float(rec[key])

-----------------------------------------------------------------------------
(* validate_data *)

VoltageMin == 18
VoltageMax == 32
CurrentMin == 0
CurrentMax == 12
TemperatureMin == -10
TemperatureMax == 80
PowerMin == 0

Returned(b) == [raised |-> FALSE, value |-> b, exc |-> "none"]
Escaped(e) == [raised |-> TRUE, value |-> FALSE, exc |-> e]

\* the body of the try block: the value returned, or the exception raised
ValidateBody(rec) ==
    LET voltage == FloatOf(rec, "voltage")
        current == FloatOf(rec, "current")
        temperature == FloatOf(rec, "temperature")
        power == FloatOf(rec, "power")
    IN  IF ~voltage.ok THEN Escaped(voltage.exc)
        ELSE IF FLt(voltage.val, F(VoltageMin)) \/ FGt(voltage.val, F(VoltageMax))
        THEN Returned(FALSE)
        ELSE IF ~current.ok THEN Escaped(current.exc)
        ELSE IF FLt(current.val, F(CurrentMin)) \/ FGt(current.val, F(CurrentMax))
        THEN Returned(FALSE)
        ELSE IF ~temperature.ok THEN Escaped(temperature.exc)
        ELSE IF FLt(temperature.val, F(TemperatureMin))
                \/ FGt(temperature.val, F(TemperatureMax))
        THEN Returned(FALSE)
        ELSE IF ~power.ok THEN Escaped(power.exc)
        ELSE IF FLt(power.val, F(PowerMin)) THEN Returned(FALSE)
        ELSE Returned(TRUE)

\* validate_data with "except ValueError:" in place of the bare except
validate_data_except_ValueError(rec) ==
    LET r == ValidateBody(rec)
    IN  IF r.raised /\ r.exc = "ValueError" THEN Returned(FALSE) ELSE r

\* try: ... except: return False
validate_data(rec) ==
    LET r == ValidateBody(rec)
    IN  IF r.raised THEN Returned(FALSE) ELSE r

-----------------------------------------------------------------------------
(* Calls of validate_data on sample records *)

T_17_9 == <<"1", "7", ".", "9">>
T_18 == <<"1", "8">>
T_32 == <<" ", "3", "2", " ">>
T_32_1 == <<"3", "2", ".", "1">>
T_24 == <<"2", "4">>
T_nan == <<"n", "a", "n">>
T_inf == <<"i", "n", "f">>
T_neg_inf == <<"-", "i", "n", "f">>
T_abc == <<"a", "b", "c">>
T_empty == <<>>
T_neg_0_1 == <<"-", "0", ".", "1">>
T_0 == <<"0">>
T_5 == <<"5">>
T_12 == <<"1", "2">>
T_12_1 == <<"1", "2", ".", "1">>
T_neg_10_1 == <<"-", "1", "0", ".", "1">>
T_neg_10 == <<"-", "1", "0">>
T_25 == <<"2", "5">>
T_80 == <<"8", "0">>
T_80_5 == <<"8", "0", ".", "5">>
T_neg_1 == <<"-", "1">>
T_250_5 == <<"+", "2", "5", "0", ".", "5">>

\* stands for a key the record does not have
Absent == [t |-> "absent", s |-> <<>>, v |-> F(0)]

VoltageCells ==
    {Str(T_17_9), Str(T_18), Str(T_32), Str(T_32_1), Str(T_nan), Str(T_abc), None,
     Flt(F(24)), Flt(NaN), Absent}
CurrentCells ==
    {Str(T_neg_0_1), Str(T_0), Str(T_12), Str(T_12_1), Str(T_nan), Str(T_empty), None,
     Absent}
TemperatureCells ==
    {Str(T_neg_10_1), Str(T_neg_10), Str(T_80), Str(T_80_5), Str(T_nan), Str(T_abc),
     Absent}
PowerCells ==
    {Str(T_neg_1), Str(T_0), Str(T_250_5), Str(T_inf), Str(T_neg_inf), Str(T_nan), None,
     Absent}

NumericKeys == {"voltage", "current", "temperature", "power"}

\* the dict holding the given cells, without the keys whose cell is Absent
MkRecord(cells) ==
    [key \in {q \in DOMAIN cells : cells[q] # Absent} |-> cells[key]]

SampleRecords ==
    {MkRecord([voltage |-> v, current |-> c, temperature |-> t, power |-> p]) :
        v \in VoltageCells, c \in CurrentCells, t \in TemperatureCells, p \in PowerCells}

NoVerdict == [raised |-> FALSE, value |-> FALSE, exc |-> "pending"]
NoRecord == MkRecord([voltage |-> Absent])

-----------------------------------------------------------------------------
(* Timestamps.  A timestamp cell is ISO-8601 text naming a calendar hour     *)
(* (date and hour, numbered) and the minutes, seconds and microseconds past  *)
(* it (here: minutes), text that is not ISO-8601, or None.                   *)

TsText(h, m) == [t |-> "str", iso |-> TRUE, hour |-> h, minute |-> m]
TsGarbage == [t |-> "str", iso |-> FALSE, hour |-> 0, minute |-> 0]
TsNone == [t |-> "none", iso |-> FALSE, hour |-> 0, minute |-> 0]

\* datetime.fromisoformat(x)
fromisoformat(x) ==
    CASE x.t = "none" -> [ok |-> FALSE, exc |-> "TypeError", hour |-> 0, minute |-> 0]
      [] ~x.iso -> [ok |-> FALSE, exc |-> "ValueError", hour |-> 0, minute |-> 0]
      [] OTHER -> [ok |-> TRUE, exc |-> "none", hour |-> x.hour, minute |-> x.minute]

\* ts.replace(minute=0, second=0, microsecond=0)
TruncateToHour(ts) == [hour |-> ts.hour, minute |-> 0]

\* hour.isoformat()
isoformat(dt) == TsText(dt.hour, dt.minute)

-----------------------------------------------------------------------------
(* calculate_metrics *)

RECURSIVE FSum(_)
FSum(xs) == IF xs = <<>> THEN F(0) ELSE FAdd(FSum(SubSeq(xs, 1, Len(xs) - 1)), xs[Len(xs)])

\* statistics.mean(xs) for a non-empty xs
Mean(xs) == FDiv(FSum(xs), F(Len(xs)))

\* min(xs): the first item no later item is smaller than
RECURSIVE MinFrom(_, _, _)
MinFrom(xs, i, best) ==
    IF i > Len(xs) THEN best
    ELSE MinFrom(xs, i + 1, IF FLt(xs[i], best) THEN xs[i] ELSE best)

Min(xs) == MinFrom(xs, 2, xs[1])

RECURSIVE MaxFrom(_, _, _)
MaxFrom(xs, i, best) ==
    IF i > Len(xs) THEN best
    ELSE MaxFrom(xs, i + 1, IF FGt(xs[i], best) THEN xs[i] ELSE best)

Max(xs) == MaxFrom(xs, 2, xs[1])

\* the sample variance of xs (divisor n - 1), Len(xs) > 1, all items finite
Variance(xs) ==
    LET m == Mean(xs)
        dev(i) == FAdd(xs[i], FMul(F(-1), m))
        sq == [i \in 1..Len(xs) |-> FMul(dev(i), dev(i))]
    IN  FDiv(FSum(sq), F(Len(xs) - 1))

\* statistics.stdev(xs), kept as the number it is the square root of
Stdev(xs) == [sqrt_of |-> Variance(xs)]

Column(recs, key) == [i \in 1..Len(recs) |-> recs[i][key].v]

IntervalMinutes == 5
MinutesPerHour == 60
WattsPerKilowatt == 1000

\* interval_hours = 5 / 60
interval_hours == Fin(IntervalMinutes, MinutesPerHour)

\* interval_hours mistaken for 5 / 6
EnergyStepTenfold(total, p) ==
    FAdd(total, FDiv(FMul(p, Fin(IntervalMinutes, 6)), F(WattsPerKilowatt)))

\* total_energy_kwh += (p * interval_hours) / 1000
EnergyStep(total, p) ==
    FAdd(total, FDiv(FMul(p, interval_hours), F(WattsPerKilowatt)))

RECURSIVE EnergyLoop(_, _, _)
EnergyLoop(powers, i, total) ==
    IF i > Len(powers) THEN total
    ELSE EnergyLoop(powers, i + 1, EnergyStep(total, powers[i]))

\* position of hour in the keys of hourly_power, or 0
KeyIndex(hourly_power, hour) ==
    IF \E j \in 1..Len(hourly_power) : hourly_power[j].hour = hour
    THEN CHOOSE j \in 1..Len(hourly_power) : hourly_power[j].hour = hour
    ELSE 0

\* the first loop over data of the peak-hour part: hourly_power as the list of
\* its items in insertion order, or the exception fromisoformat raised
RECURSIVE BucketLoop(_, _, _)
BucketLoop(recs, i, hourly_power) ==
    IF i > Len(recs) THEN [ok |-> TRUE, exc |-> "none", buckets |-> hourly_power]
    ELSE LET ts == fromisoformat(recs[i]["timestamp"])
             hour == TruncateToHour(ts)
             j == KeyIndex(hourly_power, hour)
             p == recs[i]["power"].v
         IN  IF "timestamp" \notin DOMAIN recs[i]
             THEN [ok |-> FALSE, exc |-> "KeyError", buckets |-> <<>>]
             ELSE IF ~ts.ok THEN [ok |-> FALSE, exc |-> ts.exc, buckets |-> <<>>]
             ELSE IF j = 0
             THEN BucketLoop(recs, i + 1,
                             Append(hourly_power, [hour |-> hour, values |-> <<p>>]))
             ELSE BucketLoop(recs, i + 1,
                             [hourly_power EXCEPT ![j].values = Append(@, p)])

NoPeak == [found |-> FALSE, hour |-> [hour |-> 0, minute |-> 0], highest_avg |-> F(-1)]

\* the loop body with >= in place of >
PeakStepLastWins(best, bucket) ==
    LET avg_power == Mean(bucket.values)
    IN  IF FGt(avg_power, best.highest_avg) \/ FEq(avg_power, best.highest_avg)
        THEN [found |-> TRUE, hour |-> bucket.hour, highest_avg |-> avg_power]
        ELSE best

\* if avg_power > highest_avg: highest_avg = avg_power; peak_hour = hour
PeakStep(best, bucket) ==
    LET avg_power == Mean(bucket.values)
    IN  IF FGt(avg_power, best.highest_avg)
        THEN [found |-> TRUE, hour |-> bucket.hour, highest_avg |-> avg_power]
        ELSE best

RECURSIVE PeakLoop(_, _, _)
PeakLoop(hourly_power, j, best) ==
    IF j > Len(hourly_power) THEN best
    ELSE PeakLoop(hourly_power, j + 1, PeakStep(best, hourly_power[j]))

NoMetrics == [empty |-> TRUE]

Faulted(e) == [raised |-> TRUE, exc |-> e, value |-> NoMetrics]

\* calculate_metrics(data).  stdev_rejects_nan: whether statistics.stdev raises on
\* a nan (it does in CPython 3.11, other versions return nan).
calculate_metrics(recs, stdev_rejects_nan) ==
    LET voltages == Column(recs, "voltage")
        currents == Column(recs, "current")
        temperatures == Column(recs, "temperature")
        powers == Column(recs, "power")
        finite == \A i \in 1..Len(voltages) : IsFinite(voltages[i])
        voltage_std == IF Len(voltages) > 1
                       THEN (IF finite THEN Stdev(voltages) ELSE [sqrt_of |-> NaN])
                       ELSE [sqrt_of |-> F(0)]
        total_energy_kwh == EnergyLoop(powers, 1, F(0))
        hourly == BucketLoop(recs, 1, <<>>)
        peak == PeakLoop(hourly.buckets, 1, NoPeak)
    IN  IF recs = <<>> THEN Faulted("StatisticsError")
        ELSE IF Len(voltages) > 1 /\ ~finite /\ stdev_rejects_nan
        THEN Faulted("AttributeError")
        ELSE IF ~hourly.ok THEN Faulted(hourly.exc)
        ELSE IF ~peak.found THEN Faulted("AttributeError")
        ELSE [raised |-> FALSE, exc |-> "none", value |->
                [empty |-> FALSE,
                 voltage |-> [avg |-> Mean(voltages), min |-> Min(voltages),
                              max |-> Max(voltages), std |-> voltage_std],
                 current |-> [avg |-> Mean(currents), min |-> Min(currents),
                              max |-> Max(currents)],
                 temperature |-> [avg |-> Mean(temperatures), min |-> Min(temperatures),
                                  max |-> Max(temperatures)],
                 total_energy_kwh |-> total_energy_kwh,
                 peak_power_hour |-> isoformat(peak.hour)]]

-----------------------------------------------------------------------------
(* process_sensor_data *)

MaxRows == 3        \* rows per input file, process_sensor_data alone
MaxFiles == 2       \* input files of a run of main
MaxRowsMain == 2    \* rows per input file in a run of main

\* Path("<stem>.csv"), the directory left out
Name(i) == [stem |-> i, suffix |-> ".csv"]

NoOutput == [stem |-> 0, suffix |-> "None"]
NoError == "<no error key>"

\* output_filename = input_path.stem + "_processed.json"
OutputName(input) == [stem |-> input.stem, suffix |-> "_processed.json"]

\* the result dict built on entry; processed_at is the time of the call, here
\* its number
InitialResult(input, now) ==
    [input_file |-> input, output_file |-> NoOutput, processed_at |-> now,
     status |-> "pending", records_processed |-> 0, records_invalid |-> 0,
     metrics |-> NoMetrics, error |-> NoError]

\* the missing-file branch reporting the path as one invalid record
MissingResultCounted(r) ==
    [r EXCEPT !.status = "error", !.records_invalid = 1,
              !.error = "Input file does not exist"]

\* if not input_path.exists(): ...
MissingResult(r) ==
    [r EXCEPT !.status = "error", !.error = "Input file does not exist"]

\* the empty-valid-set branch without result["records_invalid"] = invalid_count
EmptyResultNoCount(r, ic) ==
    [r EXCEPT !.status = "error", !.error = "All records invalid"]

\* if len(valid_records) == 0: ...
EmptyResult(r, ic) ==
    [r EXCEPT !.status = "error", !.records_invalid = ic,
              !.error = "All records invalid"]

\* the handler without result["status"] = "error"
ExceptResultNoStatus(r, e) == [r EXCEPT !.error = e]

\* except Exception as e: ...
ExceptResult(r, e) == [r EXCEPT !.status = "error", !.error = e]

\* 8. Update result
SuccessResult(r, output_filename, vr, ic, m) ==
    [r EXCEPT !.status = "success", !.output_file = output_filename,
              !.records_processed = Len(vr), !.records_invalid = ic, !.metrics = m]

\* the object json.dump writes
Document(r, output_filename, vr, ic, m) ==
    [input_file |-> r.input_file, output_file |-> output_filename,
     processed_at |-> r.processed_at, status |-> "success",
     records_processed |-> Len(vr), records_invalid |-> ic, metrics |-> m]

NoDocument == [empty |-> TRUE]
AbsentFile == [state |-> "absent", doc |-> NoDocument]
OldFile == [state |-> "complete", doc |-> [empty |-> FALSE, earlier_run |-> TRUE]]
TruncatedFile == [state |-> "truncated", doc |-> NoDocument]
PartialFile == [state |-> "partial", doc |-> NoDocument]
CompleteFile(doc) == [state |-> "complete", doc |-> doc]

\* row[key] = float(row[key]) for the four keys in turn, under the bare except
Coerce(row) ==
    LET voltage == FloatOf(row, "voltage")
        current == FloatOf(row, "current")
        temperature == FloatOf(row, "temperature")
        power == FloatOf(row, "power")
    IN  IF voltage.ok /\ current.ok /\ temperature.ok /\ power.ok
        THEN [ok |-> TRUE,
              row |-> [key \in DOMAIN row |->
                          CASE key = "voltage" -> Flt(voltage.val)
                            [] key = "current" -> Flt(current.val)
                            [] key = "temperature" -> Flt(temperature.val)
                            [] key = "power" -> Flt(power.val)
                            [] OTHER -> row[key]]]
        ELSE [ok |-> FALSE, row |-> row]

\* rows of an input file
MkRow(ts, v, c, t, p) ==
    [timestamp |-> ts, voltage |-> v, current |-> c, temperature |-> t, power |-> p]

T_10 == <<"1", "0">>
T_15 == <<"1", "5">>
T_20 == <<"2", "0">>

RowH1P10 == MkRow(TsText(1, 5), Str(T_24), Str(T_5), Str(T_25), Str(T_10))
RowH2P20 == MkRow(TsText(2, 0), Str(T_18), Str(T_12), Str(T_80), Str(T_20))
RowVoltageHigh == MkRow(TsText(1, 10), Str(T_32_1), Str(T_5), Str(T_25), Str(T_10))
RowCurrentText == MkRow(TsText(1, 15), Str(T_24), Str(T_abc), Str(T_25), Str(T_10))
RowShort == MkRow(TsText(1, 20), Str(T_24), Str(T_5), None, None)
RowTimestampGarbage == MkRow(TsGarbage, Str(T_24), Str(T_5), Str(T_25), Str(T_15))
RowTimestampNone == MkRow(TsNone, Str(T_24), Str(T_5), Str(T_25), Str(T_15))
RowVoltageNaN == MkRow(TsText(2, 30), Str(T_nan), Str(T_5), Str(T_25), Str(T_15))
RowPowerNaN == MkRow(TsText(3, 0), Str(T_24), Str(T_5), Str(T_25), Str(T_nan))

SampleRows ==
    {RowH1P10, RowH2P20, RowVoltageHigh, RowCurrentText, RowShort,
     RowTimestampGarbage, RowTimestampNone, RowVoltageNaN, RowPowerNaN}

MainRows == {RowH1P10, RowCurrentText, RowTimestampGarbage}

\* the loop body with a bare "continue" in the except branch
RowStepUncounted(row, vr, ic) ==
    LET c == Coerce(row)
    IN  IF ~c.ok THEN [valid_records |-> vr, invalid_count |-> ic]
        ELSE IF validate_data(c.row).value
        THEN [valid_records |-> Append(vr, c.row), invalid_count |-> ic]
        ELSE [valid_records |-> vr, invalid_count |-> ic + 1]

\* the body of "for row in reader"
RowStep(row, vr, ic) ==
    LET c == Coerce(row)
    IN  IF ~c.ok THEN [valid_records |-> vr, invalid_count |-> ic + 1]
        ELSE IF validate_data(c.row).value
        THEN [valid_records |-> Append(vr, c.row), invalid_count |-> ic]
        ELSE [valid_records |-> vr, invalid_count |-> ic + 1]

OpenFaults == {"PermissionError", "FileNotFoundError"}
ReadFaults == {"UnicodeDecodeError", "OSError"}
WriteFaults == {"PermissionError", "OSError"}

Return(r) ==
    /\ result' = r
    /\ pc' = "psd_return"

\* entry: result = {...}
PsdEnter ==
    /\ pc = "psd_call"
    /\ result' = InitialResult(input_file, file_idx)
    /\ rows_read' = <<>>
    /\ valid_records' = <<>>
    /\ invalid_count' = 0
    /\ metrics' = NoMetrics
    /\ outputs_before' = outputs
    /\ io_log' = <<>>
    /\ aggregator_calls' = 0
    /\ pc' = "psd_exists"
    /\ UNCHANGED <<record, verdict, data, report, csv_files, file_idx, results,
                   input_file, input_exists, outputs>>

\* 1. the file does not exist
PsdMissing ==
    /\ pc = "psd_exists"
    /\ ~input_exists
    /\ io_log' = Append(io_log, "exists:false")
    /\ Return(MissingResult(result))
    /\ UNCHANGED <<record, verdict, data, report, csv_files, file_idx, results,
                   input_file, input_exists, rows_read, valid_records, invalid_count,
                   metrics, outputs, outputs_before, aggregator_calls>>

\* 1. the file exists; 2. open(input_path, "r") and csv.DictReader(f)
PsdOpen ==
    /\ pc = "psd_exists"
    /\ input_exists
    /\ io_log' = io_log \o <<"exists:true", "open_r:ok">>
    /\ valid_records' = <<>>
    /\ invalid_count' = 0
    /\ pc' = "psd_rows"
    /\ UNCHANGED <<record, verdict, data, report, csv_files, file_idx, results,
                   input_file, input_exists, rows_read, metrics, result, outputs,
                   outputs_before, aggregator_calls>>

\* 2. open(input_path, "r") raises
PsdOpenFault ==
    /\ pc = "psd_exists"
    /\ input_exists
    /\ io_log' = io_log \o <<"exists:true", "open_r:fault">>
    /\ \E e \in OpenFaults : Return(ExceptResult(result, e))
    /\ UNCHANGED <<record, verdict, data, report, csv_files, file_idx, results,
                   input_file, input_exists, rows_read, valid_records, invalid_count,
                   metrics, outputs, outputs_before, aggregator_calls>>

\* 3./4. one turn of "for row in reader": the reader yields a row
PsdRow(Rows, cap) ==
    /\ pc = "psd_rows"
    /\ Len(rows_read) < cap
    /\ \E row \in Rows :
          LET step == RowStep(row, valid_records, invalid_count)
          IN  /\ rows_read' = Append(rows_read, row)
              /\ valid_records' = step.valid_records
              /\ invalid_count' = step.invalid_count
    /\ io_log' = Append(io_log, "read:row")
    /\ UNCHANGED <<pc, record, verdict, data, report, csv_files, file_idx, results,
                   input_file, input_exists, metrics, result, outputs, outputs_before,
                   aggregator_calls>>

\* the reader raises instead of yielding a row or ending
PsdReadFault ==
    /\ pc = "psd_rows"
    /\ io_log' = Append(io_log, "read:fault")
    /\ \E e \in ReadFaults : Return(ExceptResult(result, e))
    /\ UNCHANGED <<record, verdict, data, report, csv_files, file_idx, results,
                   input_file, input_exists, rows_read, valid_records, invalid_count,
                   metrics, outputs, outputs_before, aggregator_calls>>

\* the reader is exhausted; 5. no valid records
PsdAllInvalid ==
    /\ pc = "psd_rows"
    /\ Len(valid_records) = 0
    /\ io_log' = Append(io_log, "read:eof")
    /\ Return(EmptyResult(result, invalid_count))
    /\ UNCHANGED <<record, verdict, data, report, csv_files, file_idx, results,
                   input_file, input_exists, rows_read, valid_records, invalid_count,
                   metrics, outputs, outputs_before, aggregator_calls>>

\* the reader is exhausted; 6. metrics = calculate_metrics(valid_records)
PsdMetrics ==
    /\ pc = "psd_rows"
    /\ Len(valid_records) # 0
    /\ io_log' = Append(io_log, "read:eof")
    /\ aggregator_calls' = aggregator_calls + 1
    /\ \E stdev_rejects_nan \in BOOLEAN :
          LET m == calculate_metrics(valid_records, stdev_rejects_nan)
          IN  IF m.raised
              THEN /\ Return(ExceptResult(result, m.exc))
                   /\ UNCHANGED metrics
              ELSE /\ metrics' = m.value
                   /\ pc' = "psd_mkdir"
                   /\ UNCHANGED result
    /\ UNCHANGED <<record, verdict, data, report, csv_files, file_idx, results,
                   input_file, input_exists, rows_read, valid_records, invalid_count,
                   outputs, outputs_before>>

\* 7. output_dir.mkdir(parents=True, exist_ok=True)
PsdMkdir ==
    /\ pc = "psd_mkdir"
    /\ io_log' = Append(io_log, "mkdir:ok")
    /\ pc' = "psd_open_out"
    /\ UNCHANGED <<record, verdict, data, report, csv_files, file_idx, results,
                   input_file, input_exists, rows_read, valid_records, invalid_count,
                   metrics, result, outputs, outputs_before, aggregator_calls>>

PsdMkdirFault ==
    /\ pc = "psd_mkdir"
    /\ io_log' = Append(io_log, "mkdir:fault")
    /\ \E e \in WriteFaults : Return(ExceptResult(result, e))
    /\ UNCHANGED <<record, verdict, data, report, csv_files, file_idx, results,
                   input_file, input_exists, rows_read, valid_records, invalid_count,
                   metrics, outputs, outputs_before, aggregator_calls>>

\* open(output_path, "w"): the artifact is created, or emptied if it was there
PsdOpenOut ==
    /\ pc = "psd_open_out"
    /\ io_log' = Append(io_log, "open_w:ok")
    /\ outputs' = [outputs EXCEPT ![OutputName(input_file).stem] = TruncatedFile]
    /\ pc' = "psd_dump"
    /\ UNCHANGED <<record, verdict, data, report, csv_files, file_idx, results,
                   input_file, input_exists, rows_read, valid_records, invalid_count,
                   metrics, result, outputs_before, aggregator_calls>>

PsdOpenOutFault ==
    /\ pc = "psd_open_out"
    /\ io_log' = Append(io_log, "open_w:fault")
    /\ \E e \in WriteFaults : Return(ExceptResult(result, e))
    /\ UNCHANGED <<record, verdict, data, report, csv_files, file_idx, results,
                   input_file, input_exists, rows_read, valid_records, invalid_count,
                   metrics, outputs, outputs_before, aggregator_calls>>

\* json.dump(...) and the end of the with block, then 8. and return result
PsdDump ==
    /\ pc = "psd_dump"
    /\ io_log' = Append(io_log, "write:ok")
    /\ LET output_filename == OutputName(input_file)
       IN  /\ outputs' = [outputs EXCEPT ![output_filename.stem] =
                            CompleteFile(Document(result, output_filename, valid_records,
                                                  invalid_count, metrics))]
           /\ Return(SuccessResult(result, output_filename, valid_records,
                                   invalid_count, metrics))
    /\ UNCHANGED <<record, verdict, data, report, csv_files, file_idx, results,
                   input_file, input_exists, rows_read, valid_records, invalid_count,
                   metrics, outputs_before, aggregator_calls>>

\* a write or the closing flush raises: what reached the file stays there
PsdDumpFault ==
    /\ pc = "psd_dump"
    /\ io_log' = Append(io_log, "write:fault")
    /\ \E left \in {TruncatedFile, PartialFile} :
          outputs' = [outputs EXCEPT ![OutputName(input_file).stem] = left]
    /\ \E e \in {"OSError"} : Return(ExceptResult(result, e))
    /\ UNCHANGED <<record, verdict, data, report, csv_files, file_idx, results,
                   input_file, input_exists, rows_read, valid_records, invalid_count,
                   metrics, outputs_before, aggregator_calls>>

ProcessSensorData(Rows, cap) ==
    \/ PsdEnter
    \/ PsdMissing
    \/ PsdOpen
    \/ PsdOpenFault
    \/ PsdReadFault
    \/ PsdRow(Rows, cap)
    \/ PsdAllInvalid
    \/ PsdMetrics
    \/ PsdMkdir
    \/ PsdMkdirFault
    \/ PsdOpenOut
    \/ PsdOpenOutFault
    \/ PsdDump
    \/ PsdDumpFault

Idle ==
    /\ record = NoRecord
    /\ verdict = NoVerdict
    /\ data = <<>>
    /\ report = Faulted("pending")

IdleBatch ==
    /\ csv_files = <<>>
    /\ file_idx = 1
    /\ results = <<>>
    /\ input_file = Name(1)
    /\ input_exists = FALSE
    /\ rows_read = <<>>
    /\ valid_records = <<>>
    /\ invalid_count = 0
    /\ metrics = NoMetrics
    /\ result = InitialResult(Name(1), 1)
    /\ outputs = [i \in 1..MaxFiles |-> AbsentFile]
    /\ outputs_before = outputs
    /\ io_log = <<>>
    /\ aggregator_calls = 0

\* one call process_sensor_data(input_file), the output directory either fresh
\* or holding the artifacts of an earlier run
Init ==
    /\ Idle
    /\ pc = "psd_call"
    /\ csv_files = <<>>
    /\ file_idx = 1
    /\ results = <<>>
    /\ input_file = Name(1)
    /\ input_exists \in BOOLEAN
    /\ rows_read = <<>>
    /\ valid_records = <<>>
    /\ invalid_count = 0
    /\ metrics = NoMetrics
    /\ result = InitialResult(Name(1), 1)
    /\ \E prior \in {AbsentFile, OldFile} : outputs = [i \in 1..MaxFiles |-> prior]
    /\ outputs_before = outputs
    /\ io_log = <<>>
    /\ aggregator_calls = 0

Next == ProcessSensorData(SampleRows, MaxRows)

Spec == Init /\ [][Next]_vars

-----------------------------------------------------------------------------
(* Properties of process_sensor_data *)

Logged(op) == \E i \in 1..Len(io_log) : io_log[i] = op

ReturnedFromCall == pc = "psd_return"

\* the four numeric fields of the row coerce to float and the coerced row passes
\* validate_data
RowAccepted(row) == Coerce(row).ok /\ validate_data(Coerce(row).row).value

AcceptedRows == {i \in 1..Len(rows_read) : RowAccepted(rows_read[i])}

LeInclusive(lo, x, hi) == (FLt(lo, x) \/ FEq(lo, x)) /\ (FLt(x, hi) \/ FEq(x, hi))

\* the values are within the physical ranges, bounds included
InRange(voltage, current, temperature, power) ==
    /\ LeInclusive(F(VoltageMin), voltage, F(VoltageMax))
    /\ LeInclusive(F(CurrentMin), current, F(CurrentMax))
    /\ LeInclusive(F(TemperatureMin), temperature, F(TemperatureMax))
    /\ (FGt(power, F(PowerMin)) \/ FEq(power, F(PowerMin)))

\* a fully well-formed in-range row: four numeric fields within their ranges and
\* a timestamp that parses
RowWellFormed(row) ==
    /\ \A key \in NumericKeys : FloatOf(row, key).ok
    /\ InRange(FloatOf(row, "voltage").val, FloatOf(row, "current").val,
               FloatOf(row, "temperature").val, FloatOf(row, "power").val)
    /\ "timestamp" \in DOMAIN row
    /\ fromisoformat(row["timestamp"]).ok

RowHasNaN(row) ==
    \E key \in NumericKeys : FloatOf(row, key).ok /\ IsNaN(FloatOf(row, key).val)

\* C3: a success result counts the rows right: records_processed is the number
\* of rows read that coerce and pass validate_data, records_invalid the number
\* of the others, and the two add up to the number of rows read; and all through
\* the row loop len(valid_records) + invalid_count is the number of rows consumed.
C3_CountsPartitionRows ==
    /\ pc \in {"psd_rows", "psd_mkdir", "psd_open_out", "psd_dump", "psd_return"}
          => Len(valid_records) + invalid_count = Len(rows_read)
    /\ (ReturnedFromCall /\ result.status = "success")
          => /\ result.records_processed = Cardinality(AcceptedRows)
             /\ result.records_invalid = Len(rows_read) - Cardinality(AcceptedRows)
             /\ result.records_processed + result.records_invalid = Len(rows_read)

\* a success over three rows, one valid, one with a voltage out of range and one
\* with a current that is not a number
C3_Witness ==
    /\ ReturnedFromCall
    /\ result.status = "success"
    /\ result.records_processed = 1
    /\ result.records_invalid = 2
    /\ \E i, j \in 1..Len(rows_read) :
          rows_read[i] = RowVoltageHigh /\ rows_read[j] = RowCurrentText

AllInvalidResult ==
    /\ result.status = "error"
    /\ result.records_invalid = Len(rows_read)
    /\ result.records_processed = 0
    /\ result.metrics = NoMetrics
    /\ aggregator_calls = 0

C5_MissingInput ==
    /\ (pc # "psd_call" /\ ~input_exists)
          => /\ \A i \in 1..Len(io_log) : io_log[i] = "exists:false"
             /\ rows_read = <<>>
    /\ (ReturnedFromCall /\ ~input_exists)
          => /\ result.status = "error"
             /\ result.records_processed = 0
             /\ result.records_invalid = 0
             /\ result.output_file = NoOutput
             /\ result.metrics = NoMetrics
             /\ result.error = "Input file does not exist"

C5_Witness ==
    /\ ReturnedFromCall
    /\ ~input_exists
    /\ io_log = <<"exists:false">>

NoFaultLogged ==
    \A i \in 1..Len(io_log) :
        io_log[i] \notin {"open_r:fault", "read:fault", "mkdir:fault", "open_w:fault",
                          "write:fault"}

\* C9: row-level failures stay row-level: with no I/O fault, a batch holding at
\* least one fully well-formed in-range row ends in success with every such row
\* among the records processed, whatever is wrong with the other rows (nan
\* fields left aside).
C9_RowFailuresStayRowLevel ==
    (/\ ReturnedFromCall
     /\ NoFaultLogged
     /\ \E i \in 1..Len(rows_read) : RowWellFormed(rows_read[i])
     /\ \A i \in 1..Len(rows_read) : ~RowHasNaN(rows_read[i]))
        => /\ result.status = "success"
           /\ result.records_processed
                 = Cardinality({i \in 1..Len(rows_read) : RowWellFormed(rows_read[i])})

\* C10: the artifact of the input is created or modified exactly by the calls
\* that return success; an error result has output_file None and leaves the
\* output directory as it was.
C10_OutputIffSuccess ==
    ReturnedFromCall =>
        LET stem == OutputName(input_file).stem
        IN  /\ (outputs[stem] # outputs_before[stem]) <=> (result.status = "success")
            /\ result.status = "error"
                  => (result.output_file = NoOutput /\ outputs = outputs_before)

-----------------------------------------------------------------------------
(* validate_data called on each sample record *)

InitValidate ==
    /\ IdleBatch
    /\ pc = "validate_call"
    /\ record \in SampleRecords
    /\ verdict = NoVerdict
    /\ data = <<>>
    /\ report = Faulted("pending")

ValidateCall ==
    /\ pc = "validate_call"
    /\ verdict' = validate_data(record)
    /\ pc' = "validate_return"
    /\ UNCHANGED <<record, data, report>>
    /\ UNCHANGED batch_vars

NextValidate == ValidateCall

SpecValidate == InitValidate /\ [][NextValidate]_vars

\* every one of the four fields is there and holds a number
AllNumeric(rec) == \A key \in NumericKeys : FloatOf(rec, key).ok

\* C1: on a record whose four fields are numeric, validate_data returns True
\* exactly when 18 <= voltage <= 32, 0 <= current <= 12, -10 <= temperature <= 80
\* and power >= 0.
C1_AcceptsExactlyInRange ==
    (pc = "validate_return" /\ AllNumeric(record))
        => /\ ~verdict.raised
           /\ verdict.value <=> InRange(FloatOf(record, "voltage").val,
                                        FloatOf(record, "current").val,
                                        FloatOf(record, "temperature").val,
                                        FloatOf(record, "power").val)

\* C2: validate_data never raises, and returns False for every record in which
\* one of the four fields is missing or does not convert to a number.
C2_NeverRaises ==
    pc = "validate_return"
        => /\ ~verdict.raised
           /\ verdict.value \in BOOLEAN
           /\ ~AllNumeric(record) => verdict.value = FALSE

\* a record with a good voltage, no current key and a non-numeric temperature
C2_Witness ==
    /\ pc = "validate_return"
    /\ FloatOf(record, "voltage").ok
    /\ LeInclusive(F(VoltageMin), FloatOf(record, "voltage").val, F(VoltageMax))
    /\ "current" \notin DOMAIN record
    /\ "temperature" \in DOMAIN record
    /\ FloatOf(record, "temperature").exc = "ValueError"
    /\ verdict = Returned(FALSE)

-----------------------------------------------------------------------------
(* calculate_metrics called on each short sequence of valid readings *)

MaxReadings == 3

Reading(h, m, p) ==
    [timestamp |-> TsText(h, m), voltage |-> Flt(F(24)), current |-> Flt(F(5)),
     temperature |-> Flt(F(25)), power |-> Flt(p)]

SampleReadings ==
    {Reading(hm[1], hm[2], p) :
        hm \in {<<1, 0>>, <<1, 30>>, <<2, 0>>, <<3, 15>>},
        p \in {F(0), F(10), F(20), PosInf}}

InitMetrics ==
    /\ IdleBatch
    /\ pc = "metrics_call"
    /\ record = NoRecord
    /\ verdict = NoVerdict
    /\ \E n \in 1..MaxReadings : data \in [1..n -> SampleReadings]
    /\ report = Faulted("pending")

MetricsCall ==
    /\ pc = "metrics_call"
    /\ \E stdev_rejects_nan \in BOOLEAN :
          report' = calculate_metrics(data, stdev_rejects_nan)
    /\ pc' = "metrics_return"
    /\ UNCHANGED <<record, verdict, data>>
    /\ UNCHANGED batch_vars

NextMetrics == MetricsCall

SpecMetrics == InitMetrics /\ [][NextMetrics]_vars

HourOf(i) == data[i]["timestamp"].hour
PowerOf(i) == data[i]["power"].v
Hours == {HourOf(i) : i \in 1..Len(data)}
InHour(h) == {i \in 1..Len(data) : HourOf(i) = h}

RECURSIVE SumOver(_)
SumOver(I) ==
    IF I = {} THEN F(0)
    ELSE LET i == CHOOSE x \in I : TRUE IN FAdd(PowerOf(i), SumOver(I \ {i}))

\* mean power of the readings of hour h
HourMean(h) == FDiv(SumOver(InHour(h)), F(Cardinality(InHour(h))))

FirstSeen(h) == CHOOSE i \in InHour(h) : \A j \in InHour(h) : i <= j

\* h has the maximal mean and is, among the hours that have it, the one that
\* appears first in the input
IsPeak(h) ==
    \A g \in Hours :
        \/ FGt(HourMean(h), HourMean(g))
        \/ (FEq(HourMean(h), HourMean(g)) /\ FirstSeen(h) <= FirstSeen(g))

\* C7: for a non-empty sequence of valid readings, peak_power_hour is the hour
\* bucket of maximal mean power, the first one to appear in the input among
\* those of maximal mean; readings of one hour share a bucket wherever they are
\* in the input.
C7_PeakHourFirstMaximal ==
    pc = "metrics_return"
        => /\ ~report.raised
           /\ \E h \in Hours : IsPeak(h) /\ report.value.peak_power_hour = TsText(h, 0)

\* hour 1 (0 W and 20 W, not adjacent) ties with hour 2 (10 W) in between:
\* hour 1 is reported
C7_Witness ==
    /\ pc = "metrics_return"
    /\ Len(data) = 3
    /\ <<HourOf(1), HourOf(2), HourOf(3)>> = <<1, 2, 1>>
    /\ <<PowerOf(1), PowerOf(2), PowerOf(3)>> = <<F(0), F(10), F(20)>>
    /\ data[1]["timestamp"].minute # data[3]["timestamp"].minute
    /\ report.value.peak_power_hour = TsText(1, 0)

Reverse(xs) == [i \in 1..Len(xs) |-> xs[Len(xs) + 1 - i]]

\* C8: total_energy_kwh is the sum of power * (5/60) / 1000 over the readings,
\* that is 12000 * total_energy_kwh is the sum of the powers, whatever the
\* timestamps and the order; N readings of power P give N * P * (5/60) / 1000.
C8_EnergyIsSumOfPowers ==
    pc = "metrics_return"
        => /\ ~report.raised
           /\ FEq(FMul(F(12000), report.value.total_energy_kwh),
                  SumOver(1..Len(data)))
           /\ FEq(report.value.total_energy_kwh,
                  calculate_metrics(Reverse(data), TRUE).value.total_energy_kwh)
           /\ \A P \in {0, 10, 20} :
                 (\A i \in 1..Len(data) : PowerOf(i) = F(P))
                     => FEq(report.value.total_energy_kwh,
                            Fin(Len(data) * P * 5, 60 * 1000))

\* three readings of 20 W in different hours: 3 * 20 * (5/60) / 1000 = 0.005 kWh
C8_Witness ==
    /\ pc = "metrics_return"
    /\ Len(data) = 3
    /\ \A i \in 1..3 : PowerOf(i) = F(20)
    /\ Cardinality(Hours) = 3
    /\ report.value.total_energy_kwh = Fin(1, 200)

-----------------------------------------------------------------------------
(* main *)

InitMain ==
    /\ Idle
    /\ pc = "main_start"
    /\ csv_files = <<>>
    /\ file_idx = 1
    /\ results = <<>>
    /\ input_file = Name(1)
    /\ input_exists = FALSE
    /\ rows_read = <<>>
    /\ valid_records = <<>>
    /\ invalid_count = 0
    /\ metrics = NoMetrics
    /\ result = InitialResult(Name(1), 1)
    /\ \E prior \in {AbsentFile, OldFile} : outputs = [i \in 1..MaxFiles |-> prior]
    /\ outputs_before = outputs
    /\ io_log = <<>>
    /\ aggregator_calls = 0

main_unchanged ==
    <<record, verdict, data, report, rows_read, valid_records, invalid_count, metrics,
      result, outputs, outputs_before, io_log, aggregator_calls>>

\* if not incoming_dir.exists(): return
MainNoDirectory ==
    /\ pc = "main_start"
    /\ pc' = "main_done"
    /\ UNCHANGED <<csv_files, file_idx, results, input_file, input_exists>>
    /\ UNCHANGED main_unchanged

\* if not csv_files: return
MainNoFiles ==
    /\ pc = "main_start"
    /\ csv_files' = <<>>
    /\ pc' = "main_done"
    /\ UNCHANGED <<file_idx, results, input_file, input_exists>>
    /\ UNCHANGED main_unchanged

\* csv_files = list(incoming_dir.glob("*.csv")), not empty; results = [].
\* The names are distinct; which is which does not matter to the run.
MainGlob ==
    /\ pc = "main_start"
    /\ \E n \in 1..MaxFiles : csv_files' = [i \in 1..n |-> Name(i)]
    /\ results' = <<>>
    /\ file_idx' = 1
    /\ pc' = "main_loop"
    /\ UNCHANGED <<input_file, input_exists>>
    /\ UNCHANGED main_unchanged

\* for csv_file in csv_files: result = process_sensor_data(str(csv_file)), the
\* file being there or gone by now
MainProcess ==
    /\ pc = "main_loop"
    /\ file_idx <= Len(csv_files)
    /\ input_file' = csv_files[file_idx]
    /\ input_exists' \in BOOLEAN
    /\ pc' = "psd_call"
    /\ UNCHANGED <<csv_files, file_idx, results>>
    /\ UNCHANGED main_unchanged

\* results.append(result) and the report of the result
MainCollect ==
    /\ pc = "psd_return"
    /\ results' = Append(results, result)
    /\ file_idx' = file_idx + 1
    /\ pc' = "main_loop"
    /\ UNCHANGED <<csv_files, input_file, input_exists>>
    /\ UNCHANGED main_unchanged

\* the loop is over: the summary
MainSummary ==
    /\ pc = "main_loop"
    /\ file_idx > Len(csv_files)
    /\ pc' = "main_done"
    /\ UNCHANGED <<csv_files, file_idx, results, input_file, input_exists>>
    /\ UNCHANGED main_unchanged

NextMain ==
    \/ MainNoDirectory
    \/ MainNoFiles
    \/ MainGlob
    \/ MainProcess
    \/ ProcessSensorData(MainRows, MaxRowsMain)
    \/ MainCollect
    \/ MainSummary

\* main is one sequential thread: it takes its next step whenever it has one
SpecMain == InitMain /\ [][NextMain]_vars /\ WF_vars(NextMain)

Definitive(r) ==
    /\ r.status \in {"success", "error"}
    /\ r.status = "error" => r.error # NoError

\* C6: in a run of main no fault of a batch escapes process_sensor_data: every
\* call returns a result of status success or error (never pending), an error
\* result has an error description, and every file of the list is eventually
\* processed, the ones after a failing batch included.
C6_FaultsStayInBatch ==
    /\ [](/\ ReturnedFromCall => Definitive(result)
          /\ \A i \in 1..Len(results) :
                Definitive(results[i]) /\ results[i].input_file = csv_files[i]
          /\ pc = "main_loop" => Len(results) = file_idx - 1)
    /\ [](pc = "main_loop" => <>(pc = "main_done" /\ Len(results) = Len(csv_files)))

\* two files: the first batch failed on a fault caught at the batch boundary,
\* the second one went through
C6_Witness ==
    /\ pc = "main_done"
    /\ Len(results) = 2
    /\ results[1].status = "error"
    /\ results[1].error \in ReadFaults \cup WriteFaults \cup {"ValueError"}
    /\ results[2].status = "success"

====
